---- MODULE Spec2Model ----
(***************************************************************************)
(* Model of the two Flask applications of the repository:                  *)
(*   src/27100212.py  Instagram post generator (POST /generate, GET /post, *)
(*                    DELETE /delete, SQLite store, image files)           *)
(*   src/26100450.py  legal research assistant (POST /research)            *)
(*                                                                         *)
(* Texts are sequences of tokens.  A token is either a character (a digit, *)
(* the line feed) or a word that the code only tests for containment.      *)
(***************************************************************************)
EXTENDS Integers, Sequences, FiniteSets, TLC

VARIABLES
  posts,        \* table posts: id -> row
  post_images,  \* table post_images: set of rows
  seq_posts,    \* sqlite_sequence entry of posts (AUTOINCREMENT)
  files,        \* static/images: filename -> bytes
  clock,        \* datetime.now(), in clock ticks
  requests,     \* number of generation requests accepted so far
  worker,       \* request threads: position and locals of each
  committed,    \* history: post id -> request and body of the 200 answer
  deleted,      \* history: ids of posts whose delete request has completed
  parse,        \* the plan parser run on its own
  extract       \* extract_text_from_response run on its own

\* ---------------------------------------------------------------- bounds
MaxPlanLen == 5      \* tokens in a plan text given to the parser on its own
NumWorkers == 2      \* request threads of the server
MaxRequests == 2     \* generation requests accepted in one run
MaxClock == 1        \* clock ticks in one run
MaxQuestionLen == 1  \* characters in a research question
MaxBlocks == 3       \* content blocks in a research response
TicksPerSecond == 2  \* clock ticks in one second of CURRENT_TIMESTAMP

\* ------------------------------------------------------------ plan texts
NL == "\n"
SUP2 == "sup2"      \* SUPERSCRIPT TWO: str.isdigit() is True, int() rejects it
DecimalDigits == {"1", "4"}
PlanAlphabet ==
  {"POST_TYPE:", "post_type:", "CAROUSEL", "IMAGE_COUNT:", "x", NL, SUP2}
    \cup DecimalDigits

\* str.upper() on one token; "x" stands for text that holds no marker in
\* either case, digits and the line feed have no case
UpperTok(c) == IF c = "post_type:" THEN "POST_TYPE:" ELSE c

\* str.upper() on a line
Upper(line) == [i \in 1..Len(line) |-> UpperTok(line[i])]

\* marker in line
Contains(line, marker) == \E i \in 1..Len(line) : line[i] = marker

\* str.isdigit on one character
IsDigit(c) == c \in DecimalDigits \cup {SUP2}

DigitVal(c) ==
  CASE c = "1" -> 1 [] c = "4" -> 4

\* int(count_str) raises ValueError on a character that is no decimal digit
IntRaises(s) == \E i \in 1..Len(s) : s[i] \notin DecimalDigits

RECURSIVE IntOf(_)
IntOf(s) ==
  IF s = <<>> THEN 0
  ELSE 10 * IntOf(SubSeq(s, 1, Len(s) - 1)) + DigitVal(s[Len(s)])

Min2(a, b) == IF a < b THEN a ELSE b
Max2(a, b) == IF a > b THEN a ELSE b

\* plan_text.split('\n')
RECURSIVE Split(_)
Split(s) ==
  IF \A i \in 1..Len(s) : s[i] # NL THEN <<s>>
  ELSE LET i == CHOOSE k \in 1..Len(s) :
                  s[k] = NL /\ \A j \in 1..(k - 1) : s[j] # NL
       IN <<SubSeq(s, 1, i - 1)>> \o Split(SubSeq(s, i + 1, Len(s)))

\* variant: the loop goes on to later marker lines until one holds CAROUSEL
RECURSIVE ScanPostType_NoBreak(_, _)
ScanPostType_NoBreak(lines, i) ==
  IF i > Len(lines) THEN "SINGLE"
  ELSE IF /\ Contains(Upper(lines[i]), "POST_TYPE:")
          /\ Contains(Upper(lines[i]), "CAROUSEL")
       THEN "CAROUSEL"
       ELSE ScanPostType_NoBreak(lines, i + 1)

\* the loop over the lines that sets post_type, with its break
RECURSIVE ScanPostType(_, _)
ScanPostType(lines, i) ==
  IF i > Len(lines) THEN "SINGLE"
  ELSE IF Contains(Upper(lines[i]), "POST_TYPE:")
       THEN IF Contains(Upper(lines[i]), "CAROUSEL") THEN "CAROUSEL"
            ELSE "SINGLE"
       ELSE ScanPostType(lines, i + 1)

\* ''.join(filter(str.isdigit, line))
CountStr(line) == SelectSeq(line, IsDigit)

\* the body of the try/except on the IMAGE_COUNT: line
CountOfLine(line, image_count) ==
  LET count_str == CountStr(line)
  IN IF count_str = <<>> THEN image_count
     ELSE IF IntRaises(count_str) THEN 3
     ELSE Max2(2, Min2(10, IntOf(count_str)))

\* the loop over the lines that sets image_count, with its break
RECURSIVE ScanImageCount(_, _, _)
ScanImageCount(lines, i, image_count) ==
  IF i > Len(lines) THEN image_count
  ELSE IF Contains(Upper(lines[i]), "IMAGE_COUNT:")
       THEN CountOfLine(lines[i], image_count)
       ELSE ScanImageCount(lines, i + 1, image_count)

ParsePostType(plan_text) == ScanPostType(Split(plan_text), 1)

ParseImageCount(plan_text, post_type) ==
  IF post_type = "CAROUSEL" THEN ScanImageCount(Split(plan_text), 1, 1)
  ELSE 1

\* ------------------------------------------- the parser on its own inputs
RECURSIVE SeqsUpTo(_, _)
SeqsUpTo(S, n) ==
  IF n = 0 THEN {<<>>}
  ELSE LET prev == SeqsUpTo(S, n - 1)
       IN prev \cup {Append(s, c) : s \in {t \in prev : Len(t) = n - 1}, c \in S}

PlanTexts == SeqsUpTo(PlanAlphabet, MaxPlanLen)

\* ------------------------------------------------------- values and rows
Workers == 1..NumWorkers
PostIds == 1..MaxRequests

NoneV == "None"            \* Python None, also a key absent from the JSON body
NoHandle == <<>>           \* no previous_response_id
NoBody == [error |-> "none"]
NoRow == [id |-> 0]

Headlines == {"", "headline"}
Contents == {NoneV, "content"}
NewsLinks == {"", "link"}

\* variant: only a missing key is refused
Truthy_NotNone(v) == v # NoneV

\* bool(v) of a request field
Truthy(v) == v # NoneV /\ v # ""

\* texts the planning call answers with
PlanReplies ==
  { <<"POST_TYPE:", "x", NL, "IMAGE_COUNT:", "4">>,
    <<"POST_TYPE:", "CAROUSEL", NL, "IMAGE_COUNT:", "1">>,
    <<"POST_TYPE:", "CAROUSEL">> }

\* the id of the k-th response the remote service creates for request rid
Handle(rid, k) == <<rid, k>>

\* response.output_text of the response with id h
OutputText(h) == [text_of |-> h]

\* the picture images.generate returns for a prompt, base64 decoded
ImageBytes(prompt) == [picture_of |-> prompt]

\* f"/static/images/instagram_{timestamp}.png", as its parts between '/'
ImageUrl(timestamp) == <<"", "static", "images", timestamp>>

\* url.split('/')[-1]
FileName(url) == url[Len(url)]

\* int(datetime.now().timestamp() * 1000)
Timestamp == clock

\* CURRENT_TIMESTAMP, of one second resolution
CurrentTimestamp == clock \div TicksPerSecond

IdleWorker ==
  [kind |-> "idle", pc |-> "idle", rid |-> 0,
   headline |-> NoneV, content |-> NoneV, news_link |-> NoneV,
   plan_text |-> <<>>, post_type |-> "SINGLE", image_count |-> 1,
   generated_images |-> <<>>, last_response_id |-> NoHandle,
   image_prompt_response_id |-> NoHandle, image_bytes |-> NoBody,
   caption |-> NoBody, post_id |-> 0, row |-> NoRow, image_urls |-> {},
   data |-> [has_question |-> FALSE, question |-> <<>>], question |-> <<>>,
   calls |-> <<>>, status |-> 0, body |-> NoBody,
   rows |-> <<>>, listed |-> <<>>,   \* get_posts: fetched rows, posts so far
   assigned |-> FALSE]   \* history, see DeleteRows

StoreInit ==
  /\ posts = <<>>
  /\ post_images = {}
  /\ seq_posts = 0
  /\ files = <<>>
  /\ clock = 0
  /\ requests = 0
  /\ worker = [w \in Workers |-> IdleWorker]
  /\ committed = <<>>
  /\ deleted = {}

storeVars == <<posts, post_images, seq_posts, files, clock, requests, worker,
               committed, deleted>>
dbVars == <<posts, post_images, seq_posts>>
vars == <<posts, post_images, seq_posts, files, clock, requests, worker,
          committed, deleted, parse, extract>>

ParseIdle ==
  [pc |-> "idle", plan_text |-> <<>>, post_type |-> "SINGLE", image_count |-> 1]

\* no response at hand
ExtractIdle == [pc |-> "idle", content |-> <<>>, result |-> <<>>]

Init == StoreInit /\ parse = ParseIdle /\ extract = ExtractIdle

\* one entry of a request's log of calls
Call(stage, previous_response_id, id, ok) ==
  [stage |-> stage, previous_response_id |-> previous_response_id,
   id |-> id, ok |-> ok]

\* the id the next responses.create of this request returns
NextHandle(st) ==
  Handle(st.rid, Cardinality({i \in 1..Len(st.calls) : st.calls[i].id # NoHandle}) + 1)

\* return jsonify(...), status: the request is answered
Answer(st, status, body) == [st EXCEPT !.pc = "done", !.status = status, !.body = body]

\* ------------------------------------------------------- the clock
Tick ==
  /\ clock < MaxClock
  /\ clock' = clock + 1
  /\ UNCHANGED <<posts, post_images, seq_posts, files, requests, worker,
                 committed, deleted, parse, extract>>

\* ------------------------------------------------------- POST /generate
\* request.json, the three data.get and the check of the fields
GenerateRequest(w) ==
  /\ worker[w].kind = "idle"
  /\ \E h \in Headlines, c \in Contents, l \in NewsLinks :
       LET st == [IdleWorker EXCEPT !.kind = "generate", !.headline = h,
                    !.content = c, !.news_link = l]
       IN IF ~(Truthy(h) /\ Truthy(c) /\ Truthy(l))
          THEN /\ worker' = [worker EXCEPT ![w] = Answer(st, 400, [error |-> "All fields are required"])]
               /\ UNCHANGED requests
          ELSE /\ requests < MaxRequests
               /\ requests' = requests + 1
               /\ worker' = [worker EXCEPT ![w] =
                               [st EXCEPT !.pc = "plan", !.rid = requests + 1]]
  /\ UNCHANGED <<posts, post_images, seq_posts, files, clock, committed,
                 deleted, parse, extract>>

\* variant: every call after the planning carries the planning response id
PreviousOf_Planning(st) ==
  IF st.pc \in {"prompt", "caption"} THEN st.calls[1].id ELSE NoHandle

\* previous_response_id of the call the request is about to make
PreviousOf(st) ==
  IF st.pc \in {"prompt", "caption"} THEN st.last_response_id ELSE NoHandle

\* Step 1: the planning call, then the parse of its text
PlanningCall(w) ==
  LET st == worker[w]
      id == NextHandle(st)
  IN /\ st.kind = "generate" /\ st.pc = "plan"
     /\ \E plan_text \in PlanReplies :
          LET post_type == ParsePostType(plan_text)
          IN worker' = [worker EXCEPT ![w] =
               [st EXCEPT !.pc = "prompt",
                          !.plan_text = plan_text,
                          !.post_type = post_type,
                          !.image_count = ParseImageCount(plan_text, post_type),
                          !.generated_images = <<>>,
                          !.last_response_id = id,
                          !.calls = Append(@, Call("plan", PreviousOf(st), id, TRUE))]]
     /\ UNCHANGED <<posts, post_images, seq_posts, files, clock, requests,
                    committed, deleted, parse, extract>>

\* generate_single_image / generate_carousel_image: the prompt call
PromptCall(w) ==
  LET st == worker[w]
      id == NextHandle(st)
  IN /\ st.kind = "generate" /\ st.pc = "prompt"
     /\ worker' = [worker EXCEPT ![w] =
          [st EXCEPT !.pc = "synth",
                     !.image_prompt_response_id = id,
                     !.calls = Append(@, Call("prompt", PreviousOf(st), id, TRUE))]]
     /\ UNCHANGED <<posts, post_images, seq_posts, files, clock, requests,
                    committed, deleted, parse, extract>>

\* generate_and_save_image: client.images.generate
ImageGenerate(w) ==
  LET st == worker[w]
      prompt == OutputText(st.image_prompt_response_id)
  IN /\ st.kind = "generate" /\ st.pc = "synth"
     /\ worker' = [worker EXCEPT ![w] =
          [st EXCEPT !.pc = "write",
                     !.image_bytes = ImageBytes(prompt),
                     !.calls = Append(@, Call("synth", NoHandle, NoHandle, TRUE))]]
     /\ UNCHANGED <<posts, post_images, seq_posts, files, clock, requests,
                    committed, deleted, parse, extract>>

\* variant: range(image_count + 1)
LoopGoesOn_OneMore(st) ==
  st.post_type = "CAROUSEL" /\ Len(st.generated_images) + 1 < st.image_count + 1

\* the images still to make once one more is appended
LoopGoesOn(st) ==
  st.post_type = "CAROUSEL" /\ Len(st.generated_images) + 1 < st.image_count

\* generate_and_save_image: the file write and the return; then the loop
SaveImage(w) ==
  LET st == worker[w]
      image_url == ImageUrl(Timestamp)
      image_data == [url |-> image_url,
                     prompt |-> OutputText(st.image_prompt_response_id),
                     response_id |-> st.image_prompt_response_id]
  IN /\ st.kind = "generate" /\ st.pc = "write"
     /\ files' = (FileName(image_url) :> st.image_bytes) @@ files
     /\ worker' = [worker EXCEPT ![w] =
          [st EXCEPT !.pc = IF LoopGoesOn(st) THEN "prompt" ELSE "caption",
                     !.generated_images = Append(@, image_data),
                     !.last_response_id = image_data.response_id,
                     !.calls = Append(@, Call("write", NoHandle, NoHandle, TRUE))]]
     /\ UNCHANGED <<posts, post_images, seq_posts, clock, requests,
                    committed, deleted, parse, extract>>

\* Step 3: the caption call
CaptionCall(w) ==
  LET st == worker[w]
      id == NextHandle(st)
  IN /\ st.kind = "generate" /\ st.pc = "caption"
     /\ worker' = [worker EXCEPT ![w] =
          [st EXCEPT !.pc = "insert",
                     !.caption = OutputText(id),
                     !.calls = Append(@, Call("caption", PreviousOf(st), id, TRUE))]]
     /\ UNCHANGED <<posts, post_images, seq_posts, files, clock, requests,
                    committed, deleted, parse, extract>>

\* variant: INTEGER PRIMARY KEY without AUTOINCREMENT, largest rowid plus one
LastRowId_Reuse(seq, rows) ==
  IF DOMAIN rows = {} THEN 1
  ELSE (CHOOSE i \in DOMAIN rows : \A j \in DOMAIN rows : j <= i) + 1

\* c.lastrowid of an insert into a table with AUTOINCREMENT
LastRowId(seq, rows) == seq + 1

\* the rows of post_images the loop over generated_images inserts
ImageRows(post_id, generated_images) ==
  {[post_id |-> post_id,
    image_url |-> generated_images[k].url,
    image_prompt |-> generated_images[k].prompt,
    sequence_order |-> k - 1] : k \in 1..Len(generated_images)}

\* 'images' of the 200 answer
ImagesOfAnswer(generated_images) ==
  [k \in 1..Len(generated_images) |->
     [url |-> generated_images[k].url, prompt |-> generated_images[k].prompt]]

\* the two inserts, the commit and the 200 answer
InsertPost(w) ==
  LET st == worker[w]
      post_id == LastRowId(seq_posts, posts)
      body == [success |-> TRUE, post_id |-> post_id,
               post_type |-> st.post_type, plan |-> st.plan_text,
               images |-> ImagesOfAnswer(st.generated_images),
               caption |-> st.caption]
  IN /\ st.kind = "generate" /\ st.pc = "insert"
     /\ posts' = (post_id :> [id |-> post_id, headline |-> st.headline,
                              content |-> st.content,
                              news_link |-> st.news_link,
                              post_type |-> st.post_type,
                              plan |-> st.plan_text, caption |-> st.caption,
                              created_at |-> CurrentTimestamp]) @@ posts
     /\ post_images' = post_images \cup ImageRows(post_id, st.generated_images)
     /\ seq_posts' = Max2(seq_posts, post_id)
     /\ committed' = (post_id :> [rid |-> st.rid, headline |-> st.headline,
                                   content |-> st.content,
                                   news_link |-> st.news_link,
                                   body |-> body]) @@ committed
     /\ worker' = [worker EXCEPT ![w] =
                     Answer([st EXCEPT !.post_id = post_id,
                                       !.calls = Append(@, Call("insert", NoHandle, NoHandle, TRUE))],
                            200, body)]
     /\ UNCHANGED <<files, clock, requests, deleted, parse, extract>>

GenerateStages == {"plan", "prompt", "synth", "write", "caption", "insert"}

\* variant: a caption call that raises is swallowed and the post is stored
StageFails_GoesOn(w) ==
  LET st == worker[w]
      logged == [st EXCEPT !.calls = Append(@, Call(st.pc, PreviousOf(st), NoHandle, FALSE))]
  IN /\ st.kind = "generate" /\ st.pc \in GenerateStages
     /\ worker' = [worker EXCEPT ![w] =
                     IF st.pc = "caption" THEN [logged EXCEPT !.pc = "insert"]
                     ELSE Answer(logged, 500, [error |-> "exception"])]
     /\ UNCHANGED <<posts, post_images, seq_posts, files, clock, requests,
                    committed, deleted, parse, extract>>

\* a stage raises: except Exception answers 500; an open transaction is
\* rolled back when its connection is dropped
StageFails(w) ==
  LET st == worker[w]
  IN /\ st.kind = "generate" /\ st.pc \in GenerateStages
     /\ worker' = [worker EXCEPT ![w] =
                     Answer([st EXCEPT !.calls = Append(@, Call(st.pc, PreviousOf(st), NoHandle, FALSE))],
                            500, [error |-> "exception"])]
     /\ UNCHANGED <<posts, post_images, seq_posts, files, clock, requests,
                    committed, deleted, parse, extract>>

\* the answer is sent and the locals of the request are dropped
Return(w) ==
  /\ worker[w].pc = "done"
  /\ worker' = [worker EXCEPT ![w] = IdleWorker]
  /\ UNCHANGED <<posts, post_images, seq_posts, files, clock, requests,
                 committed, deleted, parse, extract>>

\* ------------------------------------------------------- GET /post/<id>
GetRequest(w) ==
  /\ worker[w].kind = "idle"
  /\ \E post_id \in PostIds :
       worker' = [worker EXCEPT ![w] =
                    [IdleWorker EXCEPT !.kind = "get", !.pc = "get_row",
                                       !.post_id = post_id]]
  /\ UNCHANGED <<posts, post_images, seq_posts, files, clock, requests,
                 committed, deleted, parse, extract>>

\* SELECT ... FROM posts WHERE id = ?, fetchone, 404 when there is no row
GetRow(w) ==
  LET st == worker[w]
  IN /\ st.kind = "get" /\ st.pc = "get_row"
     /\ worker' = [worker EXCEPT ![w] =
          IF st.post_id \in DOMAIN posts
          THEN [st EXCEPT !.pc = "get_images", !.row = posts[st.post_id]]
          ELSE Answer(st, 404, [error |-> "Post not found"])]
     /\ UNCHANGED <<posts, post_images, seq_posts, files, clock, requests,
                    committed, deleted, parse, extract>>

\* variant: ORDER BY sequence_order DESC
RECURSIVE OrderBySequence_Desc(_)
OrderBySequence_Desc(rows) ==
  IF rows = {} THEN <<>>
  ELSE LET first == CHOOSE r \in rows :
                      \A q \in rows : r.sequence_order >= q.sequence_order
       IN <<first>> \o OrderBySequence_Desc(rows \ {first})

\* rows in the order of ORDER BY sequence_order
RECURSIVE OrderBySequence(_)
OrderBySequence(rows) ==
  IF rows = {} THEN <<>>
  ELSE LET first == CHOOSE r \in rows :
                      \A q \in rows : r.sequence_order <= q.sequence_order
       IN <<first>> \o OrderBySequence(rows \ {first})

\* SELECT ... FROM post_images WHERE post_id = ? ORDER BY sequence_order
SelectImages(post_id) ==
  LET rows == OrderBySequence({r \in post_images : r.post_id = post_id})
  IN [k \in 1..Len(rows) |->
        [url |-> rows[k].image_url, prompt |-> rows[k].image_prompt,
         order |-> rows[k].sequence_order]]

\* the second SELECT and the 200 answer
GetImages(w) ==
  LET st == worker[w]
      post == [id |-> st.row.id, headline |-> st.row.headline,
               content |-> st.row.content, news_link |-> st.row.news_link,
               post_type |-> st.row.post_type, plan |-> st.row.plan,
               caption |-> st.row.caption, created_at |-> st.row.created_at,
               images |-> SelectImages(st.post_id)]
  IN /\ st.kind = "get" /\ st.pc = "get_images"
     /\ worker' = [worker EXCEPT ![w] = Answer(st, 200, [post |-> post])]
     /\ UNCHANGED <<posts, post_images, seq_posts, files, clock, requests,
                    committed, deleted, parse, extract>>

\* ------------------------------------------------------- GET /posts
ListRequest(w) ==
  /\ worker[w].kind = "idle"
  /\ worker' = [worker EXCEPT ![w] =
                  [IdleWorker EXCEPT !.kind = "list", !.pc = "list_rows"]]
  /\ UNCHANGED <<posts, post_images, seq_posts, files, clock, requests,
                 committed, deleted, parse, extract>>

\* the orders SELECT ... ORDER BY created_at DESC may return the rows in:
\* rows of equal created_at come in an order the statement does not fix
OrderByCreatedAtDesc(rows) ==
  {s \in [1..Cardinality(rows) -> rows] :
     /\ \A i, j \in 1..Cardinality(rows) : i # j => s[i] # s[j]
     /\ \A i, j \in 1..Cardinality(rows) :
          i < j => s[i].created_at >= s[j].created_at}

\* one turn of the loop over the fetched rows: the post with its images
PostOfRow(row) ==
  [id |-> row.id, headline |-> row.headline, content |-> row.content,
   news_link |-> row.news_link, post_type |-> row.post_type,
   plan |-> row.plan, caption |-> row.caption, created_at |-> row.created_at,
   images |-> SelectImages(row.id)]

\* the SELECT of all posts and fetchall; without rows, the 200 answer
ListPosts(w) ==
  LET st == worker[w]
  IN /\ st.kind = "list" /\ st.pc = "list_rows"
     /\ \E rows \in OrderByCreatedAtDesc({posts[id] : id \in DOMAIN posts}) :
          worker' = [worker EXCEPT ![w] =
            IF rows = <<>>
            THEN Answer(st, 200, [posts |-> <<>>])
            ELSE [st EXCEPT !.pc = "list_images", !.rows = rows]]
     /\ UNCHANGED <<posts, post_images, seq_posts, files, clock, requests,
                    committed, deleted, parse, extract>>

\* the SELECT of one row's images and the append; after the last row, the
\* 200 answer
ListImages(w) ==
  LET st == worker[w]
      row == st.rows[Len(st.listed) + 1]
      listed == Append(st.listed, PostOfRow(row))
  IN /\ st.kind = "list" /\ st.pc = "list_images"
     /\ worker' = [worker EXCEPT ![w] =
          IF Len(listed) = Len(st.rows)
          THEN Answer([st EXCEPT !.listed = listed], 200, [posts |-> listed])
          ELSE [st EXCEPT !.listed = listed]]
     /\ UNCHANGED <<posts, post_images, seq_posts, files, clock, requests,
                    committed, deleted, parse, extract>>

\* ------------------------------------------------------- DELETE /delete/<id>
DeleteRequest(w) ==
  /\ worker[w].kind = "idle"
  /\ \E post_id \in PostIds :
       worker' = [worker EXCEPT ![w] =
                    [IdleWorker EXCEPT !.kind = "delete", !.pc = "delete_rows",
                                       !.post_id = post_id]]
  /\ UNCHANGED <<posts, post_images, seq_posts, files, clock, requests,
                 committed, deleted, parse, extract>>

\* the SELECT of the urls, the two DELETE and the commit
DeleteRows(w) ==
  LET st == worker[w]
      mine == {r \in post_images : r.post_id = st.post_id}
  IN /\ st.kind = "delete" /\ st.pc = "delete_rows"
     /\ post_images' = post_images \ mine
     /\ posts' = [id \in DOMAIN posts \ {st.post_id} |-> posts[id]]
     /\ worker' = [worker EXCEPT ![w] =
          [st EXCEPT !.pc = "delete_files",
                     !.image_urls = {r.image_url : r \in mine},
                     !.assigned = (st.post_id <= seq_posts)]]
     /\ UNCHANGED <<seq_posts, files, clock, requests, committed, deleted, parse, extract>>

\* the loop that unlinks the files, and the 200 answer
DeleteFiles(w) ==
  LET st == worker[w]
      names == {FileName(url) : url \in st.image_urls}
  IN /\ st.kind = "delete" /\ st.pc = "delete_files"
     /\ files' = [f \in DOMAIN files \ names |-> files[f]]
     /\ deleted' = IF st.assigned THEN deleted \cup {st.post_id} ELSE deleted
     /\ worker' = [worker EXCEPT ![w] =
                     Answer(st, 200, [success |-> TRUE])]
     /\ UNCHANGED <<posts, post_images, seq_posts, clock, requests, committed,
                    parse, extract>>

\* ------------------------------------------------------- POST /research
Questions == SeqsUpTo({" ", "q"}, MaxQuestionLen)

RECURSIVE LStrip(_)
LStrip(s) == IF s # <<>> /\ Head(s) = " " THEN LStrip(Tail(s)) ELSE s

RECURSIVE RStrip(_)
RStrip(s) ==
  IF s # <<>> /\ s[Len(s)] = " " THEN RStrip(SubSeq(s, 1, Len(s) - 1)) ELSE s

\* str.strip()
Strip(s) == LStrip(RStrip(s))

\* JSON bodies of POST /research: with or without the key 'question'
ResearchBodies ==
  {[has_question |-> FALSE, question |-> <<>>]}
    \cup {[has_question |-> TRUE, question |-> q] : q \in Questions}

\* data.get('question', '')
GetQuestion(data) == IF data.has_question THEN data.question ELSE <<>>

\* content blocks: reasoning, a tool result, and text blocks (one empty)
Blocks ==
  {[type |-> "thinking", text |-> <<"t">>],
   [type |-> "web_search_tool_result", text |-> <<"r">>],
   [type |-> "text", text |-> <<"a">>],
   [type |-> "text", text |-> <<"b">>],
   [type |-> "text", text |-> <<>>]}

ResearchContents == SeqsUpTo(Blocks, MaxBlocks)

\* contents the follow-up call answers with
ResearchReplies ==
  { <<[type |-> "thinking", text |-> <<"t">>], [type |-> "text", text |-> <<"a">>]>>,
    <<[type |-> "text", text |-> <<"a">>], [type |-> "text", text |-> <<"b">>]>> }

\* "\n\n".join(parts)
RECURSIVE Join(_)
Join(parts) ==
  IF parts = <<>> THEN <<>>
  ELSE IF Len(parts) = 1 THEN parts[1]
  ELSE parts[1] \o <<NL, NL>> \o Join(Tail(parts))

\* variant: the loop appends every block, whatever its type
RECURSIVE TextParts_AnyType(_)
TextParts_AnyType(content) ==
  IF content = <<>> THEN <<>>
  ELSE <<Head(content).text>> \o TextParts_AnyType(Tail(content))

\* the loop over message.content that collects the text blocks
RECURSIVE TextParts(_)
TextParts(content) ==
  IF content = <<>> THEN <<>>
  ELSE IF Head(content).type = "text"
       THEN <<Head(content).text>> \o TextParts(Tail(content))
       ELSE TextParts(Tail(content))

ExtractTextFromResponse(content) == Join(TextParts(content))

\* request.get_json, the question and its check
ResearchRequest(w) ==
  /\ worker[w].kind = "idle"
  /\ \E data \in ResearchBodies :
       LET question == Strip(GetQuestion(data))
           st == [IdleWorker EXCEPT !.kind = "research", !.data = data,
                                    !.question = question]
       IN worker' = [worker EXCEPT ![w] =
            IF question = <<>>
            THEN Answer(st, 400, [error |-> "Please provide a legal question."])
            ELSE [st EXCEPT !.pc = "initial"]]
  /\ UNCHANGED <<posts, post_images, seq_posts, files, clock, requests,
                 committed, deleted, parse, extract>>

\* make_initial_research_call
InitialResearchCall(w) ==
  LET st == worker[w]
  IN /\ st.kind = "research" /\ st.pc = "initial"
     /\ worker' = [worker EXCEPT ![w] =
          [st EXCEPT !.pc = "followup",
                     !.calls = Append(@, Call("initial", NoHandle, NoHandle, TRUE))]]
     /\ UNCHANGED <<posts, post_images, seq_posts, files, clock, requests,
                    committed, deleted, parse, extract>>

\* make_followup_call, extract_text_from_response and the 200 answer
FollowupCall(w) ==
  LET st == worker[w]
  IN /\ st.kind = "research" /\ st.pc = "followup"
     /\ \E content \in ResearchReplies :
          worker' = [worker EXCEPT ![w] =
            Answer([st EXCEPT !.calls = Append(@, Call("followup", NoHandle, NoHandle, TRUE))],
                   200, [result |-> ExtractTextFromResponse(content),
                         success |-> TRUE])]
     /\ UNCHANGED <<posts, post_images, seq_posts, files, clock, requests,
                    committed, deleted, parse, extract>>

\* one of the two calls raises: except Exception answers 500
ResearchFails(w) ==
  LET st == worker[w]
  IN /\ st.kind = "research" /\ st.pc \in {"initial", "followup"}
     /\ worker' = [worker EXCEPT ![w] =
                     Answer([st EXCEPT !.calls = Append(@, Call(st.pc, NoHandle, NoHandle, FALSE))],
                            500, [error |-> "exception", success |-> FALSE])]
     /\ UNCHANGED <<posts, post_images, seq_posts, files, clock, requests,
                    committed, deleted, parse, extract>>

\* ------------------------------------------------------- specifications
Next ==
  \/ Tick
  \/ \E w \in Workers :
       \/ GenerateRequest(w) \/ PlanningCall(w) \/ PromptCall(w)
       \/ ImageGenerate(w) \/ SaveImage(w) \/ CaptionCall(w)
       \/ InsertPost(w) \/ StageFails(w) \/ Return(w)
       \/ GetRequest(w) \/ GetRow(w) \/ GetImages(w)
       \/ ListRequest(w) \/ ListPosts(w) \/ ListImages(w)
       \/ DeleteRequest(w) \/ DeleteRows(w) \/ DeleteFiles(w)
       \/ ResearchRequest(w) \/ InitialResearchCall(w) \/ FollowupCall(w)
       \/ ResearchFails(w)

Spec == Init /\ [][Next]_vars

\* the parser applied to every plan text of at most MaxPlanLen tokens
ParseInit ==
  /\ StoreInit
  /\ parse \in {[pc |-> "text", plan_text |-> t, post_type |-> "SINGLE",
                 image_count |-> 1] : t \in PlanTexts}
  /\ extract = ExtractIdle

\* lines 140 to 162 of generate_post
ParsePlan ==
  /\ parse.pc = "text"
  /\ LET post_type == ParsePostType(parse.plan_text)
     IN parse' = [parse EXCEPT !.pc = "parsed", !.post_type = post_type,
                    !.image_count = ParseImageCount(parse.plan_text, post_type)]
  /\ UNCHANGED <<storeVars, extract>>

ParseNext == ParsePlan

ParseSpec == ParseInit /\ [][ParseNext]_vars

\* extract_text_from_response applied to every response of at most
\* MaxBlocks content blocks
ExtractInit ==
  /\ StoreInit
  /\ parse = ParseIdle
  /\ extract \in {[pc |-> "response", content |-> c, result |-> <<>>] :
                    c \in ResearchContents}

ExtractText ==
  /\ extract.pc = "response"
  /\ extract' = [extract EXCEPT !.pc = "extracted",
                    !.result = ExtractTextFromResponse(extract.content)]
  /\ UNCHANGED <<storeVars, parse>>

ExtractNext == ExtractText

ExtractSpec == ExtractInit /\ [][ExtractNext]_vars

\* ------------------------------------------------------- properties
ImagesOf(post_id) == {r \in post_images : r.post_id = post_id}

SequenceOrders(post_id) == {r.sequence_order : r \in ImagesOf(post_id)}

\* C1: every stored post is SINGLE or CAROUSEL; a SINGLE post has exactly one
\* image row, a CAROUSEL post has 2 to 10 image rows; the sequence_order
\* values of a post are unique and contiguous from 0.
C1_PostShape ==
  \A p \in DOMAIN posts :
    LET n == Cardinality(ImagesOf(p))
    IN /\ posts[p].post_type \in {"SINGLE", "CAROUSEL"}
       /\ posts[p].post_type = "SINGLE" => n = 1
       /\ posts[p].post_type = "CAROUSEL" => n \in 2..10
       /\ SequenceOrders(p) = 0..(n - 1)

GenerateAnswered(st) ==
  st.kind = "generate" /\ st.pc = "done" /\ st.status = 200

\* the calls of a request that asked for an image prompt
PromptCalls(st) == SelectSeq(st.calls, LAMBDA c : c.stage = "prompt")

\* the number of images the parsed plan asks for
ImagesAskedFor(st) == IF st.post_type = "SINGLE" THEN 1 ELSE st.image_count

\* C2: a successful POST /generate persists exactly as many image rows as
\* the parsed image count (1 for SINGLE, N for CAROUSEL with count N), with
\* sequence orders 0..N-1, row k holding the image of the k-th sub-call.
C2_RowsMatchCount ==
  \A w \in Workers :
    LET st == worker[w]
        n == ImagesAskedFor(st)
    IN (GenerateAnswered(st) /\ st.post_id \in DOMAIN posts) =>
         /\ Cardinality(ImagesOf(st.post_id)) = n
         /\ SequenceOrders(st.post_id) = 0..(n - 1)
         /\ Len(PromptCalls(st)) = n
         /\ \A k \in 1..n :
              \E r \in ImagesOf(st.post_id) :
                /\ r.sequence_order = k - 1
                /\ r.image_prompt = OutputText(PromptCalls(st)[k].id)
                /\ r.image_url = st.generated_images[k].url

C2_Witness ==
  \E w \in Workers :
    /\ GenerateAnswered(worker[w])
    /\ worker[w].post_type = "CAROUSEL"
    /\ worker[w].image_count = 2
    /\ Cardinality(ImagesOf(worker[w].post_id)) = 2

\* the lines of a plan text that hold a marker, compared in upper case
MarkerLines(plan_text, marker) ==
  {i \in 1..Len(Split(plan_text)) : Contains(Upper(Split(plan_text)[i]), marker)}

FirstMarkerLine(plan_text, marker) ==
  LET at == MarkerLines(plan_text, marker)
  IN Split(plan_text)[CHOOSE i \in at : \A j \in at : i <= j]

DecimalDigitsOf(line) == SelectSeq(line, LAMBDA c : c \in DecimalDigits)

\* the first contiguous run of decimal digits of a line that has one
FirstRun(line) ==
  LET from == CHOOSE i \in 1..Len(line) :
                /\ line[i] \in DecimalDigits
                /\ \A j \in 1..(i - 1) : line[j] \notin DecimalDigits
      to == CHOOSE i \in from..Len(line) :
              /\ \A j \in from..i : line[j] \in DecimalDigits
              /\ i = Len(line) \/ line[i + 1] \notin DecimalDigits
  IN SubSeq(line, from, to)

Clamp(n) == IF n < 2 THEN 2 ELSE IF n > 10 THEN 10 ELSE n

ParsedCarousel ==
  /\ parse.pc = "parsed"
  /\ parse.post_type = "CAROUSEL"
  /\ MarkerLines(parse.plan_text, "IMAGE_COUNT:") # {}

\* C3: for a CAROUSEL plan whose IMAGE_COUNT: line holds a decimal digit, the
\* image count is the integer parsed from the digits of that line (its first
\* run of digits, or all its decimal digits read as one number), clamped
\* into 2..10.
C3_ClampedCount ==
  LET line == FirstMarkerLine(parse.plan_text, "IMAGE_COUNT:")
  IN (ParsedCarousel /\ DecimalDigitsOf(line) # <<>>) =>
       \/ parse.image_count = Clamp(IntOf(FirstRun(line)))
       \/ parse.image_count = Clamp(IntOf(DecimalDigitsOf(line)))

\* C4: for a CAROUSEL plan whose IMAGE_COUNT: line holds no decimal digit,
\* the image count is the default carousel size 3.
C4_DefaultCount ==
  LET line == FirstMarkerLine(parse.plan_text, "IMAGE_COUNT:")
  IN (ParsedCarousel /\ DecimalDigitsOf(line) = <<>>) => parse.image_count = 3

\* C5: the post type is decided by the first line that holds POST_TYPE:
\* (in any case): CAROUSEL if that line holds CAROUSEL, SINGLE otherwise;
\* later marker lines are ignored; without a marker line it is SINGLE.
C5_FirstMarkerDecides ==
  parse.pc = "parsed" =>
    parse.post_type =
      IF MarkerLines(parse.plan_text, "POST_TYPE:") = {} THEN "SINGLE"
      ELSE IF Contains(Upper(FirstMarkerLine(parse.plan_text, "POST_TYPE:")), "CAROUSEL")
           THEN "CAROUSEL"
           ELSE "SINGLE"

C5_Witness ==
  /\ parse.pc = "parsed"
  /\ parse.plan_text = <<"post_type:", "x", NL, "POST_TYPE:", "CAROUSEL">>
  /\ parse.post_type = "SINGLE"

\* the stage of the j-th call of a generation that makes n images
StageAt(j, n) ==
  IF j = 1 THEN "plan"
  ELSE IF j <= 1 + 3 * n
       THEN CASE (j - 2) % 3 = 0 -> "prompt"
              [] (j - 2) % 3 = 1 -> "synth"
              [] (j - 2) % 3 = 2 -> "write"
       ELSE IF j = 2 + 3 * n THEN "caption" ELSE "insert"

\* C6: the calls of one POST /generate are issued in the order planning,
\* image 1 .. image N (prompt, synthesis, file write), caption, each after its
\* predecessor completed; planning carries no previous handle, the prompt
\* call of image 1 carries the planning handle, that of image i+1 the handle
\* returned for image i, the caption call the handle returned for image N.
C6_CallChain ==
  \A w \in Workers :
    LET st == worker[w]
        n == ImagesAskedFor(st)
        prompts == PromptCalls(st)
    IN st.kind = "generate" =>
         /\ Len(st.calls) <= 3 + 3 * n
         /\ \A j \in 1..Len(st.calls) :
              /\ st.calls[j].stage = StageAt(j, n)
              /\ j < Len(st.calls) => st.calls[j].ok
              /\ st.calls[j].stage = "plan" =>
                   st.calls[j].previous_response_id = NoHandle
              /\ st.calls[j].stage = "caption" =>
                   /\ st.calls[j].previous_response_id = prompts[n].id
                   /\ prompts[n].id # NoHandle
         /\ \A k \in 1..Len(prompts) :
              /\ prompts[k].previous_response_id =
                   IF k = 1 THEN st.calls[1].id ELSE prompts[k - 1].id
              /\ prompts[k].previous_response_id # NoHandle

C6_Witness ==
  \E w \in Workers :
    /\ worker[w].kind = "generate"
    /\ worker[w].image_count = 2
    /\ Len(worker[w].calls) = 8
    /\ worker[w].calls[8].stage = "caption"
    /\ worker[w].calls[8].ok

Failed(st) == \E j \in 1..Len(st.calls) : ~st.calls[j].ok

C7_NothingCommitted ==
  \A w \in Workers :
    LET st == worker[w]
    IN (st.kind = "generate" /\ Failed(st)) =>
         /\ st.pc = "done" /\ st.status = 500
         /\ "error" \in DOMAIN st.body
         /\ \A j \in 1..(Len(st.calls) - 1) : st.calls[j].ok
         /\ \A p \in DOMAIN committed : committed[p].rid # st.rid

C7_FailingStep ==
  \A w \in Workers :
    (worker'[w].kind = "generate" /\ Failed(worker'[w]) /\ ~Failed(worker[w]))
      => UNCHANGED <<posts, post_images, seq_posts, files>>

\* C7: when a stage of POST /generate fails, no later stage is issued, nothing
\* is retried, the answer is 500 with an error, no post row and no image row
\* of the request is ever committed, and the failure leaves the image files
\* written so far where they are.
C7_FailureAborts == []C7_NothingCommitted /\ [][C7_FailingStep]_vars

C7_Witness ==
  \E w \in Workers :
    /\ worker[w].kind = "generate" /\ worker[w].status = 500
    /\ worker[w].calls[Len(worker[w].calls)].stage = "caption"
    /\ Len(worker[w].generated_images) = 2
    /\ \A k \in 1..2 : FileName(worker[w].generated_images[k].url) \in DOMAIN files

AllGiven(st) ==
  /\ st.headline \notin {NoneV, ""}
  /\ st.content \notin {NoneV, ""}
  /\ st.news_link \notin {NoneV, ""}

Blank(s) == \A i \in 1..Len(s) : s[i] = " "

Rejected(st) == st.pc = "done" /\ st.status = 400 /\ st.calls = <<>>

C8_Rejected ==
  \A w \in Workers :
    LET st == worker[w]
    IN /\ (st.kind = "generate" /\ ~AllGiven(st)) => Rejected(st)
       /\ (st.kind = "research" /\ Blank(GetQuestion(st.data))) => Rejected(st)

C8_RejectingStep ==
  \A w \in Workers :
    (worker'[w].status = 400 /\ worker[w].status # 400)
      => UNCHANGED <<posts, post_images, seq_posts, files>>

\* C8: POST /generate with headline, content or news_link empty or absent,
\* and POST /research with a question that is empty once trimmed, are
\* answered 400 before any remote call and leave the store unchanged.
C8_ValidationFirst == []C8_Rejected /\ [][C8_RejectingStep]_vars

C8_Witness ==
  \E v, w \in Workers :
    /\ worker[v].kind = "generate" /\ worker[v].status = 400
    /\ worker[v].headline = "headline" /\ worker[v].content = NoneV
    /\ worker[w].kind = "research" /\ worker[w].status = 400
    /\ worker[w].data.question = <<" ">>
    /\ posts # <<>>

C9_Gone ==
  \A p \in deleted : p \notin DOMAIN posts /\ ImagesOf(p) = {}

C9_FetchStep ==
  \A w \in Workers :
    (/\ worker[w].kind = "get" /\ worker[w].pc = "get_row"
     /\ worker'[w] # worker[w]
     /\ worker[w].post_id \in deleted)
      => (worker'[w].pc = "done" /\ worker'[w].status = 404)

\* C9: once a delete of the id P of a post has completed, the store holds no
\* post row with id P and no image row with post_id P, and every later fetch
\* of P is answered 404.
C9_DeletedStaysDeleted == []C9_Gone /\ [][C9_FetchStep]_vars

C9_Witness ==
  \E w \in Workers :
    /\ worker[w].kind = "get" /\ worker[w].status = 404
    /\ worker[w].post_id \in deleted
    /\ posts # <<>>

\* C10: a fetch of a stored post returns the headline, content and news_link
\* of its request, the post_type, plan and caption of the answer to that
\* request, and the same (url, prompt) pairs in the same order.
C10_RoundTrip ==
  \A w \in Workers :
    LET st == worker[w]
    IN (/\ st.kind = "get" /\ st.pc = "done" /\ st.status = 200
        /\ st.post_id \in DOMAIN posts) =>
         LET got == st.body.post
             made == committed[st.post_id]
         IN /\ got.headline = made.headline
            /\ got.content = made.content
            /\ got.news_link = made.news_link
            /\ got.post_type = made.body.post_type
            /\ got.plan = made.body.plan
            /\ got.caption = made.body.caption
            /\ Len(got.images) = Len(made.body.images)
            /\ \A k \in 1..Len(got.images) :
                 /\ got.images[k].url = made.body.images[k].url
                 /\ got.images[k].prompt = made.body.images[k].prompt

C10_Witness ==
  \E w \in Workers :
    /\ worker[w].kind = "get" /\ worker[w].status = 200
    /\ worker[w].post_id = 2 /\ 2 \in DOMAIN posts
    /\ 1 \in deleted
    /\ Len(worker[w].body.post.images) = 2


\* the urls of the images a request has written so far
UrlsOf(st) == {st.generated_images[k].url : k \in 1..Len(st.generated_images)}

\* C11: every generated image is written under its own filename: no two
\* image writes of one request, and no two of requests in flight together,
\* target the same file, and no two image rows share a url.
C11_OwnFile ==
  /\ \A w \in Workers :
       \A j, k \in 1..Len(worker[w].generated_images) :
         j # k => worker[w].generated_images[j].url # worker[w].generated_images[k].url
  /\ \A v, w \in Workers : v # w => UrlsOf(worker[v]) \cap UrlsOf(worker[w]) = {}
  /\ \A r, q \in post_images : r # q => r.image_url # q.image_url


\* C13: for a CAROUSEL plan whose IMAGE_COUNT: line holds decimal digits and
\* no other digit character, the image count is the first contiguous run of
\* decimal digits of that line, clamped into 2..10; digits later on the line
\* do not change it.
C13_FirstRunOnly ==
  LET line == FirstMarkerLine(parse.plan_text, "IMAGE_COUNT:")
  IN (/\ ParsedCarousel
      /\ DecimalDigitsOf(line) # <<>>
      /\ \A i \in 1..Len(line) : IsDigit(line[i]) => line[i] \in DecimalDigits)
       => parse.image_count = Clamp(IntOf(FirstRun(line)))


\* a step of the DELETE /delete/<post_id> handler run by w
DeleteStepOf(w) ==
  /\ worker[w].kind = "delete"
  /\ worker[w].pc \in {"delete_rows", "delete_files"}
  /\ worker'[w] # worker[w]

\* post Q keeps its row, its image rows and the files behind them
KeptByStep(Q) ==
  /\ Q \in DOMAIN posts' /\ posts'[Q] = posts[Q]
  /\ {r \in post_images' : r.post_id = Q} = ImagesOf(Q)
  /\ \A r \in ImagesOf(Q) :
       FileName(r.image_url) \in DOMAIN files =>
         /\ FileName(r.image_url) \in DOMAIN files'
         /\ files'[FileName(r.image_url)] = files[FileName(r.image_url)]

C15_DeleteStep ==
  \A w \in Workers :
    DeleteStepOf(w) =>
      /\ \A Q \in DOMAIN posts \ {worker[w].post_id} : KeptByStep(Q)
      /\ (worker[w].pc = "delete_rows" /\ worker[w].post_id \notin DOMAIN posts)
           => (posts' = posts /\ post_images' = post_images /\ files' = files)
      /\ (worker[w].pc = "delete_files" /\ worker[w].image_urls = {})
           => (posts' = posts /\ post_images' = post_images /\ files' = files)

\* C15: a step of the delete of post id P changes nothing of any other
\* post: its row, its image rows and the image files behind them stay as
\* they were; the delete of an id that has no post row (its SELECT finds no
\* image row) leaves the rows and all the image files unchanged.
C15_DeleteFrame == [][C15_DeleteStep]_vars


\* a GET /posts request that has been answered
ListAnswered(w) ==
  worker[w].kind = "list" /\ worker[w].pc = "done" /\ worker[w].status = 200

\* ids grow with the commits (AUTOINCREMENT), so newest-first is id-descending
C12_Listing ==
  \A w \in Workers :
    ListAnswered(w) =>
      LET l == worker[w].body.posts
      IN /\ \A i, j \in 1..Len(l) : i < j => l[i].id > l[j].id
         /\ \A i \in 1..Len(l) :
              \A a, b \in 1..Len(l[i].images) :
                a < b => l[i].images[a].order < l[i].images[b].order

\* the SELECT of the posts fetches every stored post, each once
C12_SelectStep ==
  \A w \in Workers :
    (worker[w].kind = "list" /\ worker[w].pc = "list_rows"
       /\ worker'[w].pc = "list_images") =>
      /\ {worker'[w].rows[i].id : i \in 1..Len(worker'[w].rows)} = DOMAIN posts
      /\ Len(worker'[w].rows) = Cardinality(DOMAIN posts)

\* C12: GET /posts returns every stored post exactly once, newest first: a
\* post committed later never comes after one committed earlier, two posts
\* of the same second included; each post has its images in ascending
\* sequence order.
C12_NewestFirst == []C12_Listing /\ [][C12_SelectStep]_vars


\* the blocks of type text, in their order
TextBlocksOf(content) == SelectSeq(content, LAMBDA b : b.type = "text")

\* the texts of the blocks, each after the first preceded by a blank line
RECURSIVE Paragraphs(_)
Paragraphs(blocks) ==
  IF blocks = <<>> THEN <<>>
  ELSE IF Len(blocks) = 1 THEN blocks[1].text
  ELSE Paragraphs(SubSeq(blocks, 1, Len(blocks) - 1))
         \o <<NL, NL>> \o blocks[Len(blocks)].text

\* C14: extract_text_from_response returns the texts of the blocks of type
\* text, in their order, joined by a blank line; blocks of another type add
\* nothing, and a response without a text block gives the empty string.
C14_OnlyTextBlocks ==
  extract.pc = "extracted" =>
    /\ extract.result = Paragraphs(TextBlocksOf(extract.content))
    /\ TextBlocksOf(extract.content) = <<>> => extract.result = <<>>

C14_Witness ==
  /\ extract.pc = "extracted"
  /\ extract.content = <<[type |-> "text", text |-> <<"a">>],
                         [type |-> "thinking", text |-> <<"t">>],
                         [type |-> "text", text |-> <<"b">>]>>
  /\ extract.result = <<"a", NL, NL, "b">>

====
